---- MODULE Spec2Model ----
(***************************************************************************)
(* Model of packages/application-extension/src/index.ts: the router        *)
(* plugin, the document opener, the tree resolver, the tree path updater   *)
(* and the sidebar visibility plugin.                                      *)
(*                                                                         *)
(* Strings are sequences of tokens: a token is a piece of text that the    *)
(* operations below never split ("/", "tree", ".ipynb", "%2F", ...).       *)
(***************************************************************************)
EXTENDS Integers, Sequences, FiniteSets, TLC

VARIABLES
  location,        \* window.location: [path, search]
  history,         \* the browser's session history entries
  hidx,            \* index of the current history entry
  started,         \* app.started has resolved and its callback has run
  rules,           \* the router's registered rules, in registration order
  commands,        \* ids of the commands registered in app.commands
  routedConnected, \* the tree resolver's listener is connected to router.routed
  setDisposed,     \* set.isDisposed of the tree resolver's DisposableSet
  delegate,        \* the tree resolver's PromiseDelegate: [state, value]
  pageConfig,      \* PageConfig options: [baseUrl, treePath]
  inflight,        \* route() calls in progress
  opener,          \* document opens requested by router:tree
  executions,      \* the promises returned by the executions of router:tree
  effects,         \* Router.navigate / PageConfig.setOption calls, in call order
  resolveCalls,    \* number of delegate.resolve calls made
  firstEvent,      \* first tree resolver handler invoked: action, routed or none
  firstDone,       \* first tree resolver handler that ran to its end
  updCalls,        \* number of updateTreePath calls made
  updDiffered,     \* per call: did its argument differ from treePath
  updArg,          \* argument of the latest updateTreePath call
  routeCalls,      \* number of router.route() calls made
  collapsed,       \* per side: notebookShell.leftCollapsed / rightCollapsed
  currentWidget,   \* per side: id of the handler's currentWidget, or "null"
  widgets,         \* per side: ids of the widgets of the side panel, in order
  shellCurrent,    \* id of notebookShell.currentWidget (main area), or "null"
  activations,     \* number of notebookShell.activateById calls made
  restored,        \* app.restored has resolved and its callback has run
  menu,            \* the optional IMainMenu is present
  palette,         \* the optional ICommandPalette is present
  sideBarMenu,     \* per side: handle of the View menu entry, or 0 for null
  viewMenu,        \* the submenu items attached to menu.viewMenu, in order
  menuHandles,     \* number of View menu entries created so far
  sideBarPalette,  \* the variable sidebarUpdated reads: "null" or "palette"
  paletteItems,    \* entries of the SideBarPalette created at restore
  toggleCalls,     \* number of toggle-panel executions
  panelEvents,     \* number of widgets added to or removed from a side panel
  streak,          \* the latest run of toggle-panel executions with one {side, id}
  toggleLog,       \* the latest run of toggle-panel executions on one side
  settingRegistry, \* the optional ISettingRegistry is present
  loadSettings,    \* settingRegistry.load(pluginId): none, pending, resolved, rejected
  settingsConnected, \* the callback of Promise.all([loadSettings, app.restored]) has run
  userVisible,     \* settings.user.visible of the top plugin: undefined, true, false
  changedPending,  \* a change of the settings has not been notified yet
  settingsOverride, \* the flag settingsOverride of topVisibility
  topVisible,      \* top.isVisible
  format,          \* app.format
  logged,          \* number of console.error calls of topVisibility
  topEvents        \* number of format changes, header toggles and settings edits

routerVars == <<location, history, hidx, started, rules, commands,
                routedConnected, setDisposed, delegate, pageConfig, inflight,
                opener, executions, effects, resolveCalls, firstEvent, firstDone,
                updCalls,
                updDiffered, updArg, routeCalls>>

sidebarVars == <<collapsed, currentWidget, widgets, shellCurrent, activations,
                 restored, menu, palette, sideBarMenu, viewMenu, menuHandles,
                 sideBarPalette, paletteItems, toggleCalls, panelEvents, streak,
                 toggleLog>>

topVars == <<settingRegistry, loadSettings, settingsConnected, userVisible,
             changedPending, settingsOverride, topVisible, format, logged, topEvents>>

vars == <<routerVars, sidebarVars, topVars>>

-----------------------------------------------------------------------------
(* Bounds *)

MaxCalls == 3      \* updateTreePath calls and route() calls, together
MaxToggles == 3    \* toggle-panel executions
MaxPanelEvents == 3 \* widgets added to or removed from the side panels
MaxTopEvents == 4  \* format changes, header toggles and settings edits, together

-----------------------------------------------------------------------------
(* Strings *)

NoStr == <<>>

\* A pathname: "/" + segment, once per segment.
RECURSIVE PathOf(_)
PathOf(segs) ==
  IF segs = <<>> THEN <<>> ELSE <<"/">> \o Head(segs) \o PathOf(Tail(segs))

\* The pathnames of the explored URLs.
Paths ==
  { PathOf(<< <<>> >>),                                      \* /
    PathOf(<< <<"tree">> >>),                                \* /tree
    PathOf(<< <<"tree">>, <<"a", ".ipynb">> >>),             \* /tree/a.ipynb
    PathOf(<< <<"tree">>, <<"notebooks">>, <<"sub">> >>),    \* /tree/notebooks/sub
    PathOf(<< <<"nonexistent">> >>),                         \* /nonexistent
    PathOf(<< <<"notebooks">>, <<"a", ".ipynb">> >>),        \* /notebooks/a.ipynb
    PathOf(<< <<"edit">>, <<"a", ".ipynb">> >>),             \* /edit/a.ipynb
    PathOf(<< <<"notebooks">>, <<>> >>),                     \* /notebooks/
    PathOf(<< <<"notebooks">>, <<"my", "%20", "notes", ".txt">> >>),
                                                             \* /notebooks/my%20notes.txt
    PathOf(<< <<"edit">>, <<"%">> >>) }                      \* /edit/%

FileBrowserPathKey == <<"file-browser-path">>

\* The query strings of the explored URLs (keys and values not yet decoded):
\* none, the key alone, the key after another key with an escaped value, the
\* key twice, another key alone, and a malformed percent-escape ("%" alone).
Searches ==
  { <<>>,
    <<"?">> \o FileBrowserPathKey \o <<"=", "/", "data">>,
    <<"?", "reset", "=", "1", "&">> \o FileBrowserPathKey \o <<"=", "%2F", "home">>,
    <<"?">> \o FileBrowserPathKey \o <<"=", "/", "data", "&">>
            \o FileBrowserPathKey \o <<"=", "%2F", "home">>,
    <<"?", "reset", "=", "1">>,
    <<"?">> \o FileBrowserPathKey \o <<"=", "/", "data", "&", "q", "=", "%">> }

TreePaths == { <<>>, <<"notebooks", "/", "a", ".ipynb">>, <<"my", " ", "dir">> }

BaseUrls == { <<>>, <<"/">> }

\* String.prototype.split(sep) for a one-token separator.
RECURSIVE Split(_, _)
Split(s, sep) ==
  IF \A i \in 1..Len(s) : s[i] # sep THEN <<s>>
  ELSE LET i == CHOOSE j \in 1..Len(s) :
                  s[j] = sep /\ \A k \in 1..(j - 1) : s[k] # sep
       IN <<SubSeq(s, 1, i - 1)>> \o Split(SubSeq(s, i + 1, Len(s)), sep)

\* decodeURIComponent, token by token; it throws URIError on a malformed escape.
DecodeToken(t) ==
  CASE t = "%2F" -> "/"
    [] t = "%20" -> " "
    [] OTHER -> t

Malformed(s) == \E i \in 1..Len(s) : s[i] = "%"

decodeURIComponent(s) == [i \in 1..Len(s) |-> DecodeToken(s[i])]

\* encodeURIComponent, token by token.
EncodeToken(t) ==
  CASE t = "/" -> "%2F"
    [] t = " " -> "%20"
    [] t = "%" -> "%25"
    [] t = "?" -> "%3F"
    [] t = "&" -> "%26"
    [] t = "=" -> "%3D"
    [] OTHER -> t

encodeURIComponent(s) == [i \in 1..Len(s) |-> EncodeToken(s[i])]

\* posix.join as URLExt.join uses it: the non-empty parts joined by "/", and
\* runs of "/" collapsed (no "." or ".." segment occurs in the explored values).
RECURSIVE CollapseSlashes(_)
CollapseSlashes(s) ==
  IF Len(s) < 2 THEN s
  ELSE IF s[1] = "/" /\ s[2] = "/" THEN CollapseSlashes(Tail(s))
       ELSE <<s[1]>> \o CollapseSlashes(Tail(s))

RECURSIVE JoinWithSlash(_)
JoinWithSlash(parts) ==
  IF parts = <<>> THEN <<>>
  ELSE IF Head(parts) = <<>> THEN JoinWithSlash(Tail(parts))
  ELSE IF \A i \in 1..Len(Tail(parts)) : Tail(parts)[i] = <<>> THEN Head(parts)
  ELSE Head(parts) \o <<"/">> \o JoinWithSlash(Tail(parts))

URLExtJoin(parts) == CollapseSlashes(JoinWithSlash(parts))

\* URLExt.encodeParts: split on "/", encode each part, join again.
URLExtEncodeParts(path) ==
  LET parts == Split(path, "/")
  IN URLExtJoin([i \in 1..Len(parts) |-> encodeURIComponent(parts[i])])

\* URLExt.queryStringToObject: drop a leading "?", split on "&", split each
\* piece on "=", and for a non-empty key store the decoded second piece (a later
\* occurrence of a key overwrites an earlier one). [ok |-> FALSE] is a URIError.
RECURSIVE QueryReduce(_, _)
QueryReduce(pieces, acc) ==
  IF pieces = <<>> THEN [ok |-> TRUE, obj |-> acc]
  ELSE LET kv == Split(Head(pieces), "=")
           key == kv[1]
           value == IF Len(kv) >= 2 THEN kv[2] ELSE <<>>
       IN IF Len(key) = 0 THEN QueryReduce(Tail(pieces), acc)
          ELSE IF Malformed(value) THEN [ok |-> FALSE, obj |-> acc]
          ELSE QueryReduce(Tail(pieces),
                 [k \in (DOMAIN acc) \cup {key} |->
                    IF k = key THEN decodeURIComponent(value) ELSE acc[k]])

queryStringToObject(value) ==
  LET stripped == IF value # <<>> /\ Head(value) = "?" THEN Tail(value) ELSE value
  IN QueryReduce(Split(stripped, "&"), <<>>)

-----------------------------------------------------------------------------
(* Route patterns *)

\* String.prototype.match for new RegExp('/(notebooks|edit)/(.*)'): the leftmost
\* "/" followed by notebooks or edit and another "/"; group 2 is the rest.
TreePatternAt(s, i) ==
  /\ i + 2 <= Len(s)
  /\ s[i] = "/"
  /\ s[i + 1] \in {"notebooks", "edit"}
  /\ s[i + 2] = "/"

TREE_PATTERN(s) ==
  IF \E i \in 1..Len(s) : TreePatternAt(s, i)
  THEN LET i == CHOOSE j \in 1..Len(s) :
                  TreePatternAt(s, j) /\ \A k \in 1..(j - 1) : ~TreePatternAt(s, k)
       IN [matched |-> TRUE, route |-> <<s[i + 1]>>,
           path |-> SubSeq(s, i + 3, Len(s))]
  ELSE [matched |-> FALSE, route |-> <<>>, path |-> <<>>]

\* String.prototype.match for new RegExp('/(/tree/.*)?'): a "/" anywhere; the
\* group that follows it is optional.
treePattern(s) == \E i \in 1..Len(s) : s[i] = "/"

resolveTree == "application:resolve-tree"
routerTree == "router:tree"
togglePanel == "application:toggle-panel"

PatternMatches(pattern, path) ==
  CASE pattern = "TREE_PATTERN" -> TREE_PATTERN(path).matched
    [] pattern = "treePattern" -> treePattern(path)

\* opener.activate runs before tree.activate: the plugins are activated in the
\* order of the exported list, each after the services it requires.
InitialRules ==
  << [pattern |-> "TREE_PATTERN", command |-> routerTree],
     [pattern |-> "treePattern", command |-> resolveTree] >>

\* The command of the first registered rule whose pattern the path satisfies.
RouterMatch(rs, path) ==
  IF \E i \in 1..Len(rs) : PatternMatches(rs[i].pattern, path)
  THEN LET i == CHOOSE j \in 1..Len(rs) :
                  /\ PatternMatches(rs[j].pattern, path)
                  /\ \A k \in 1..(j - 1) : ~PatternMatches(rs[k].pattern, path)
       IN rs[i].command
  ELSE "none"

-----------------------------------------------------------------------------
(* Tree resolver *)

Null == [tag |-> "null"]
PathsValue(b, f) == [tag |-> "paths", browser |-> b, file |-> f]

Pending == [state |-> "pending", value |-> Null]

resolverVars == <<rules, commands, routedConnected, setDisposed, delegate,
                  resolveCalls>>

\* SetDispose without the DisposableDelegate that disconnects the listener.
SetDisposeKeepsListener ==
  /\ setDisposed' = TRUE
  /\ commands' = commands \ {resolveTree}
  /\ rules' = SelectSeq(rules, LAMBDA r : r.command # resolveTree)
  /\ routedConnected' = routedConnected

\* DisposableSet.dispose: the command, the rule and the routed listener go.
SetDispose ==
  /\ setDisposed' = TRUE
  /\ commands' = commands \ {resolveTree}
  /\ rules' = SelectSeq(rules, LAMBDA r : r.command # resolveTree)
  /\ routedConnected' = FALSE

\* PromiseDelegate.resolve: a promise settles once, later calls change nothing.
DelegateResolve(v) ==
  /\ delegate' = IF delegate.state = "pending"
                 THEN [state |-> "fulfilled", value |-> v]
                 ELSE delegate
  /\ resolveCalls' = resolveCalls + 1

\* query['file-browser-path'] || ''
BrowserOf(query) ==
  IF FileBrowserPathKey \in DOMAIN query THEN query[FileBrowserPathKey] ELSE NoStr

\* ResolvedPaths reading the key after it was deleted from the query object.
ResolvedPathsKeyDeleted(query, cfg) == PathsValue(NoStr, cfg.treePath)

\* The value resolveTree fulfils the promise with.
ResolvedPaths(query, cfg) == PathsValue(BrowserOf(query), cfg.treePath)

\* resolveTreeExecute with set.dispose() moved above the query parsing.
resolveTreeExecuteDisposeFirst(args) ==
  LET parsed == queryStringToObject(args.search)
  IN /\ firstEvent' = IF firstEvent = "none" THEN "action" ELSE firstEvent
     /\ IF setDisposed
        THEN UNCHANGED <<resolverVars, firstDone>>
        ELSE IF ~parsed.ok
        THEN SetDispose /\ UNCHANGED <<delegate, resolveCalls, firstDone>>
        ELSE /\ SetDispose
             /\ DelegateResolve(ResolvedPaths(parsed.obj, pageConfig))
             /\ firstDone' = IF firstDone = "none" THEN "action" ELSE firstDone

\* execute of application:resolve-tree, for the location args.
resolveTreeExecute(args) ==
  LET parsed == queryStringToObject(args.search)
  IN /\ firstEvent' = IF firstEvent = "none" THEN "action" ELSE firstEvent
     /\ IF setDisposed
        THEN UNCHANGED <<resolverVars, firstDone>>
        ELSE IF ~parsed.ok
        THEN UNCHANGED <<resolverVars, firstDone>>
        ELSE /\ SetDispose
             /\ DelegateResolve(ResolvedPaths(parsed.obj, pageConfig))
             /\ firstDone' = IF firstDone = "none" THEN "action" ELSE firstDone

\* listener without its set.dispose() call.
listenerNoDispose ==
  /\ firstEvent' = IF firstEvent = "none" THEN "routed" ELSE firstEvent
  /\ IF setDisposed
     THEN UNCHANGED <<resolverVars, firstDone>>
     ELSE /\ DelegateResolve(Null)
          /\ firstDone' = IF firstDone = "none" THEN "routed" ELSE firstDone
          /\ UNCHANGED <<rules, commands, routedConnected, setDisposed>>

\* The listener connected to router.routed.
listener ==
  /\ firstEvent' = IF firstEvent = "none" THEN "routed" ELSE firstEvent
  /\ IF setDisposed
     THEN UNCHANGED <<resolverVars, firstDone>>
     ELSE /\ SetDispose
          /\ DelegateResolve(Null)
          /\ firstDone' = IF firstDone = "none" THEN "routed" ELSE firstDone

-----------------------------------------------------------------------------
(* Document opener *)

NOTEBOOK_FACTORY == "Notebook"
EDITOR_FACTORY == "Editor"

ExtTokens == {".ipynb", ".txt"}

\* PathExt.extname: the extension of the last segment, "" for a dot file.
extname(file) ==
  IF /\ Len(file) >= 2
     /\ file[Len(file)] \in ExtTokens
     /\ file[Len(file) - 1] # "/"
  THEN <<file[Len(file)]>>
  ELSE <<>>

\* The promise execute of router:tree returns, for group 2 of the match being
\* path: fulfilled by the early return if there is none, rejected if decoding it
\* throws; otherwise execute awaits a promise whose executor never calls
\* resolve or reject, and stays pending. open is the place of its document open
\* in opener, 0 without one.
ExecutePromise(path, open) ==
  IF path = <<>> THEN [open |-> 0, promise |-> "fulfilled"]
  ELSE IF Malformed(path) THEN [open |-> 0, promise |-> "rejected"]
  ELSE [open |-> open, promise |-> "pending"]

\* execute of router:tree choosing the factory by the route, notebooks or
\* edit, instead of by the extension of the file.
routerTreeExecuteFactoryOfRoute(args) ==
  LET path == TREE_PATTERN(args.path).path
      file == decodeURIComponent(path)
  IN /\ executions' = Append(executions, ExecutePromise(path, Len(opener) + 1))
     /\ IF path = <<>> \/ Malformed(path)
        THEN UNCHANGED opener
        ELSE IF TREE_PATTERN(args.path).route = <<"notebooks">>
        THEN opener' = Append(opener, [file |-> file, factory |-> NOTEBOOK_FACTORY,
                                       state |-> "loading"])
        ELSE opener' = Append(opener, [file |-> file, factory |-> EDITOR_FACTORY,
                                       state |-> "opened"])

\* execute of router:tree, for the location args: nothing for a path without
\* group 2; for .ipynb the open waits for the notebook settings to load.
routerTreeExecute(args) ==
  LET path == TREE_PATTERN(args.path).path
      file == decodeURIComponent(path)
  IN /\ executions' = Append(executions, ExecutePromise(path, Len(opener) + 1))
     /\ IF path = <<>> \/ Malformed(path)
        THEN UNCHANGED opener
        ELSE IF extname(file) = <<".ipynb">>
        THEN opener' = Append(opener, [file |-> file, factory |-> NOTEBOOK_FACTORY,
                                       state |-> "loading"])
        ELSE opener' = Append(opener, [file |-> file, factory |-> EDITOR_FACTORY,
                                       state |-> "opened"])

\* settingRegistry?.load(...) settles: docManager.open follows only if it
\* did not reject (an absent registry counts as loaded).
OpenerSettingsLoaded(i, ok) ==
  /\ UNCHANGED <<sidebarVars, topVars>>
  /\ i \in 1..Len(opener)
  /\ opener[i].state = "loading"
  /\ opener' = [opener EXCEPT ![i].state = IF ok THEN "opened" ELSE "failed"]
  /\ UNCHANGED executions
  /\ UNCHANGED <<location, history, hidx, started, resolverVars, pageConfig,
                 inflight, effects, firstEvent, firstDone, updCalls, updDiffered,
                 updArg, routeCalls>>

-----------------------------------------------------------------------------
(* Router *)

\* router.route(): look the current location up; the matched command is
\* executed and routed is emitted in later steps of the same call.
RouterRoute(loc) ==
  /\ inflight' = Append(inflight, [loc |-> loc,
                                   command |-> RouterMatch(rules, loc.path),
                                   phase |-> "matched"])
  /\ routeCalls' = routeCalls + 1

\* router.navigate(path, {skipRouting}): history.pushState, then route()
\* unless skipRouting is set.
RouterNavigate(path, skipRouting) ==
  /\ location' = [path |-> path, search |-> NoStr]
  /\ history' = Append(SubSeq(history, 1, hidx), location')
  /\ hidx' = hidx + 1
  /\ IF skipRouting
     THEN UNCHANGED <<inflight, routeCalls>>
     ELSE RouterRoute(location')

\* The callback of app.started without its call of router.route().
AppStartedWithoutRoute ==
  /\ UNCHANGED <<sidebarVars, topVars>>
  /\ ~started
  /\ started' = TRUE
  /\ UNCHANGED <<inflight, routeCalls>>
  /\ UNCHANGED <<location, history, hidx, resolverVars, pageConfig, opener, executions,
                 effects, firstEvent, firstDone, updCalls, updDiffered, updArg>>

\* app.started resolves: the first route(), and the popstate listener is added.
AppStarted ==
  /\ UNCHANGED <<sidebarVars, topVars>>
  /\ ~started
  /\ started' = TRUE
  /\ RouterRoute(location)
  /\ UNCHANGED <<location, history, hidx, resolverVars, pageConfig, opener, executions,
                 effects, firstEvent, firstDone, updCalls, updDiffered, updArg>>

\* popstate with the listener added at activation instead of in the callback
\* of app.started: every pop routes.
PopStateListenerAtActivation(i) ==
  /\ UNCHANGED <<sidebarVars, topVars>>
  /\ i \in 1..Len(history)
  /\ i # hidx
  /\ hidx' = i
  /\ location' = history[i]
  /\ updCalls + routeCalls < MaxCalls
  /\ RouterRoute(history[i])
  /\ UNCHANGED <<history, started, resolverVars, pageConfig, opener, executions, effects,
                 firstEvent, firstDone, updCalls, updDiffered, updArg>>

\* The browser moves to another history entry and fires popstate.
PopState(i) ==
  /\ UNCHANGED <<sidebarVars, topVars>>
  /\ i \in 1..Len(history)
  /\ i # hidx
  /\ hidx' = i
  /\ location' = history[i]
  /\ IF started
     THEN /\ updCalls + routeCalls < MaxCalls
          /\ RouterRoute(history[i])
     ELSE UNCHANGED <<inflight, routeCalls>>
  /\ UNCHANGED <<history, started, resolverVars, pageConfig, opener, executions, effects,
                 firstEvent, firstDone, updCalls, updDiffered, updArg>>

\* commands.execute of the command a route() call matched.
ExecuteMatched(i) ==
  /\ UNCHANGED <<sidebarVars, topVars>>
  /\ i \in 1..Len(inflight)
  /\ inflight[i].phase = "matched"
  /\ inflight' = [inflight EXCEPT ![i].phase = "executed"]
  /\ LET cmd == inflight[i].command
         args == inflight[i].loc
     IN IF cmd = resolveTree /\ cmd \in commands
        THEN resolveTreeExecute(args) /\ UNCHANGED <<opener, executions>>
        ELSE IF cmd = routerTree /\ cmd \in commands
        THEN routerTreeExecute(args)
             /\ UNCHANGED <<resolverVars, firstEvent, firstDone>>
        ELSE UNCHANGED <<resolverVars, firstEvent, firstDone, opener, executions>>
  /\ UNCHANGED <<location, history, hidx, started, pageConfig, effects, updCalls,
                 updDiffered, updArg, routeCalls>>

\* A route() call that emits routed only once no document open it started is
\* waiting for its settings.
EmitRoutedAwaitsAction(i) ==
  /\ UNCHANGED <<sidebarVars, topVars>>
  /\ i \in 1..Len(inflight)
  /\ inflight[i].phase = "executed"
  /\ \A k \in 1..Len(opener) : opener[k].state # "loading"
  /\ inflight' = SubSeq(inflight, 1, i - 1) \o SubSeq(inflight, i + 1, Len(inflight))
  /\ IF routedConnected
     THEN listener
     ELSE UNCHANGED <<resolverVars, firstEvent, firstDone>>
  /\ UNCHANGED <<location, history, hidx, started, pageConfig, opener, executions, effects,
                 updCalls, updDiffered, updArg, routeCalls>>

\* The routed signal of a route() call is emitted to the connected listeners.
EmitRouted(i) ==
  /\ UNCHANGED <<sidebarVars, topVars>>
  /\ i \in 1..Len(inflight)
  /\ inflight[i].phase = "executed"
  /\ inflight' = SubSeq(inflight, 1, i - 1) \o SubSeq(inflight, i + 1, Len(inflight))
  /\ IF routedConnected
     THEN listener
     ELSE UNCHANGED <<resolverVars, firstEvent, firstDone>>
  /\ UNCHANGED <<location, history, hidx, started, pageConfig, opener, executions, effects,
                 updCalls, updDiffered, updArg, routeCalls>>

-----------------------------------------------------------------------------
(* Tree path updater *)

\* PageConfig.getOption('baseUrl') || '/'
BaseUrlOrRoot(cfg) == IF cfg.baseUrl = NoStr THEN <<"/">> ELSE cfg.baseUrl

\* updateTreePath without its comparison with the recorded path.
TreePathDiffersAlways(treePath, cfg) == TRUE

\* treePath !== PageConfig.getOption('treePath')
TreePathDiffers(treePath, cfg) == treePath # cfg.treePath

TreeUrl(treePath, cfg) ==
  URLExtJoin(<<BaseUrlOrRoot(cfg), <<"tree">>, URLExtEncodeParts(treePath)>>)

\* router.navigate called without skipRouting.
SkipRoutingUnset == FALSE

\* The options updateTreePath passes to router.navigate: { skipRouting: true }.
SkipRouting == TRUE

\* updateTreePath persisting the option before it navigates.
UpdateEffectsWriteFirst(treePath, path) ==
  << [op |-> "setOption", arg |-> treePath], [op |-> "navigate", arg |-> path] >>

\* The calls updateTreePath makes when the path differs, in call order.
UpdateEffects(treePath, path) ==
  << [op |-> "navigate", arg |-> path], [op |-> "setOption", arg |-> treePath] >>

updateTreePath(treePath) ==
  IF TreePathDiffers(treePath, pageConfig)
  THEN LET path == TreeUrl(treePath, pageConfig)
           calls == UpdateEffects(treePath, path)
       IN /\ effects' = effects \o calls
          /\ IF \E k \in 1..Len(calls) : calls[k].op = "navigate"
             THEN RouterNavigate(path, SkipRouting)
             ELSE UNCHANGED <<location, history, hidx, inflight, routeCalls>>
          /\ IF \E k \in 1..Len(calls) : calls[k].op = "setOption"
             THEN pageConfig' = [pageConfig EXCEPT !.treePath = treePath]
             ELSE UNCHANGED pageConfig
  ELSE UNCHANGED <<effects, location, history, hidx, pageConfig, inflight,
                   routeCalls>>

UpdateTreePath(treePath) ==
  /\ UNCHANGED <<sidebarVars, topVars>>
  /\ updCalls + routeCalls < MaxCalls
  /\ updCalls' = updCalls + 1
  /\ updDiffered' = Append(updDiffered, treePath # pageConfig.treePath)
  /\ updArg' = treePath
  /\ updateTreePath(treePath)
  /\ UNCHANGED <<started, resolverVars, opener, executions, firstEvent, firstDone>>

-----------------------------------------------------------------------------
(* Sidebar visibility *)

Sides == {"left", "right"}

\* Values of args['side'], one of them neither left nor right.
SideArgs == Sides \cup {"top"}

WidgetIds == {"A", "B"}

MainWidgets == {"null", "doc"}

Range(f) == {f[k] : k \in DOMAIN f}

NoStreak == [side |-> "none", id |-> "none", from |-> <<>>, after |-> <<>>]

\* What a side shows: Collapsed, or Expanded with its current widget.
SideStateOf(isCollapsed, current) ==
  IF isCollapsed THEN <<"Collapsed">> ELSE <<"Expanded", current>>

SideState(s) == SideStateOf(collapsed[s], currentWidget[s])

\* notebookShell.expandLeft / expandRight: show the side and activate id.
ShellExpand(s, id) ==
  /\ collapsed' = [collapsed EXCEPT ![s] = FALSE]
  /\ currentWidget' = [currentWidget EXCEPT
                         ![s] = IF id \in Range(widgets[s]) THEN id ELSE @]

\* notebookShell.collapseLeft / collapseRight: hide the side; the handler
\* keeps its current widget.
ShellCollapse(s) ==
  /\ collapsed' = [collapsed EXCEPT ![s] = TRUE]
  /\ UNCHANGED currentWidget

\* A case of the switch without its test of currentWidget?.id against args.id:
\* an expanded side is collapsed whatever widget is asked for.
ToggleCaseNoSwitch(s, h, id) ==
  IF collapsed[s]
  THEN ShellExpand(s, id) /\ UNCHANGED activations
  ELSE /\ ShellCollapse(s)
       /\ activations' = IF shellCurrent # "null"
                         THEN activations + 1
                         ELSE activations

\* A case of the switch without its last branch: the side is expanded with the
\* requested widget whatever it shows.
ToggleCaseNoCollapse(s, h, id) ==
  ShellExpand(s, id) /\ UNCHANGED activations

\* One case of the switch in execute: s is the side of the case, h the side
\* whose handler's currentWidget the case compares with args.id.
ToggleCase(s, h, id) ==
  IF collapsed[s]
  THEN ShellExpand(s, id) /\ UNCHANGED activations
  ELSE IF currentWidget[h] # id
  THEN ShellExpand(s, id) /\ UNCHANGED activations
  ELSE /\ ShellCollapse(s)
       /\ activations' = IF shellCurrent # "null"
                         THEN activations + 1
                         ELSE activations

\* execute with the right case comparing with leftHandler.currentWidget.
togglePanelExecuteLeftHandler(args) ==
  CASE args.side = "left" -> ToggleCase("left", "left", args.id)
    [] args.side = "right" -> ToggleCase("right", "left", args.id)
    [] OTHER -> UNCHANGED <<collapsed, currentWidget, activations>>

\* execute with a default case that runs the left case.
togglePanelExecuteDefaultLeft(args) ==
  CASE args.side = "left" -> ToggleCase("left", "left", args.id)
    [] args.side = "right" -> ToggleCase("right", "right", args.id)
    [] OTHER -> ToggleCase("left", "left", args.id)

\* execute of application:toggle-panel.
togglePanelExecute(args) ==
  CASE args.side = "left" -> ToggleCase("left", "left", args.id)
    [] args.side = "right" -> ToggleCase("right", "right", args.id)
    [] OTHER -> UNCHANGED <<collapsed, currentWidget, activations>>

\* isToggled without its tests of leftCollapsed and rightCollapsed.
togglePanelIsToggledCurrentOnly(args) ==
  CASE args.side = "left" -> currentWidget["left"] = args.id
    [] args.side = "right" -> currentWidget["right"] = args.id
    [] OTHER -> FALSE

\* isToggled of application:toggle-panel.
togglePanelIsToggled(args) ==
  CASE args.side = "left" ->
         IF collapsed["left"] THEN FALSE
         ELSE IF currentWidget["left"] = "null" THEN FALSE
         ELSE currentWidget["left"] = args.id
    [] args.side = "right" ->
         IF collapsed["right"] THEN FALSE
         ELSE IF currentWidget["right"] = "null" THEN FALSE
         ELSE currentWidget["right"] = args.id
    [] OTHER -> FALSE

getSidebarLabel(area) == IF area = "left" THEN "Left Sidebar" ELSE "Right Sidebar"

MenuState == [sideBarMenu |-> sideBarMenu, viewMenu |-> viewMenu,
              menuHandles |-> menuHandles]

\* The items updateMenu adds to the new submenu, one per widget of the side.
MenuItems(area, ws) ==
  [k \in 1..Len(ws) |->
     [command |-> togglePanel,
      args |-> [side |-> area, title |-> <<"Show", ws[k]>>, id |-> ws[k]]]]

\* updateMenu without the disposal of the previous menu entry.
updateMenuKeepsPrevious(st, area, ws) ==
  IF ~menu THEN st
  ELSE LET handle == st.menuHandles + 1
       IN IF Len(ws) > 0
          THEN [sideBarMenu |-> [st.sideBarMenu EXCEPT ![area] = handle],
                viewMenu |-> Append(st.viewMenu, [handle |-> handle,
                                                  label |-> getSidebarLabel(area),
                                                  items |-> MenuItems(area, ws)]),
                menuHandles |-> handle]
          ELSE st

\* updateMenu without its menuToAdd test: the new submenu is always attached.
updateMenuAttachesEmpty(st, area, ws) ==
  IF ~menu THEN st
  ELSE LET kept == SelectSeq(st.viewMenu, LAMBDA m : m.handle # st.sideBarMenu[area])
           handle == st.menuHandles + 1
       IN [sideBarMenu |-> [st.sideBarMenu EXCEPT ![area] = handle],
           viewMenu |-> Append(kept, [handle |-> handle,
                                      label |-> getSidebarLabel(area),
                                      items |-> MenuItems(area, ws)]),
           menuHandles |-> handle]

\* updateMenu(area, label) on the menu state st, the side holding widgets ws:
\* the previous entry is disposed, and a new submenu with one toggle-panel item
\* per widget is added to the View menu if there is any widget.
updateMenu(st, area, ws) ==
  IF ~menu THEN st
  ELSE LET kept == SelectSeq(st.viewMenu, LAMBDA m : m.handle # st.sideBarMenu[area])
           items == MenuItems(area, ws)
           handle == st.menuHandles + 1
       IN IF Len(ws) > 0
          THEN [sideBarMenu |-> [st.sideBarMenu EXCEPT ![area] = handle],
                viewMenu |-> Append(kept, [handle |-> handle,
                                           label |-> getSidebarLabel(area),
                                           items |-> items]),
                menuHandles |-> handle]
          ELSE [st EXCEPT !.viewMenu = kept]

\* sidebarUpdated(sidebar, widget, action), the side now holding widgets ws.
sidebarUpdated(area, id, action, ws) ==
  /\ LET st == updateMenu(MenuState, area, ws)
     IN /\ sideBarMenu' = st.sideBarMenu
        /\ viewMenu' = st.viewMenu
        /\ menuHandles' = st.menuHandles
  /\ IF sideBarPalette # "null"
     THEN IF action = "add"
          THEN paletteItems' = paletteItems \cup {<<id, area>>}
          ELSE paletteItems' = paletteItems \ {<<id, area>>}
     ELSE UNCHANGED paletteItems

InsertAt(ws, pos, id) == SubSeq(ws, 1, pos - 1) \o <<id>> \o SubSeq(ws, pos, Len(ws))

\* The callback of app.restored: the menus of both sides, the palette entries
\* of the widgets already there (held by a palette local to the callback), and
\* the connections to widgetAdded and widgetRemoved.
AppRestored ==
  /\ ~restored
  /\ restored' = TRUE
  /\ LET st == updateMenu(updateMenu(MenuState, "left", widgets["left"]),
                          "right", widgets["right"])
     IN /\ sideBarMenu' = st.sideBarMenu
        /\ viewMenu' = st.viewMenu
        /\ menuHandles' = st.menuHandles
  /\ IF palette
     THEN paletteItems' =
            UNION {{<<widgets[a][k], a>> : k \in 1..Len(widgets[a])} : a \in Sides}
     ELSE UNCHANGED paletteItems
  /\ UNCHANGED <<collapsed, currentWidget, widgets, shellCurrent, activations,
                 menu, palette, sideBarPalette, toggleCalls, panelEvents, streak,
                 toggleLog>>
  /\ UNCHANGED <<routerVars, topVars>>

\* A widget is added to a side panel, at the place its rank gives it.
AddWidget(s, id, pos) ==
  /\ panelEvents < MaxPanelEvents
  /\ \A a \in Sides : id \notin Range(widgets[a])
  /\ pos \in 1..(Len(widgets[s]) + 1)
  /\ panelEvents' = panelEvents + 1
  /\ widgets' = [widgets EXCEPT ![s] = InsertAt(@, pos, id)]
  /\ IF restored
     THEN sidebarUpdated(s, id, "add", widgets'[s])
     ELSE UNCHANGED <<sideBarMenu, viewMenu, menuHandles, paletteItems>>
  /\ streak' = NoStreak
  /\ toggleLog' = <<>>
  /\ UNCHANGED <<collapsed, currentWidget, shellCurrent, activations, restored,
                 menu, palette, sideBarPalette, toggleCalls>>
  /\ UNCHANGED <<routerVars, topVars>>

\* A widget is removed from a side panel; it is no longer the current widget.
RemoveWidget(s, id) ==
  /\ panelEvents < MaxPanelEvents
  /\ id \in Range(widgets[s])
  /\ panelEvents' = panelEvents + 1
  /\ widgets' = [widgets EXCEPT ![s] = SelectSeq(@, LAMBDA w : w # id)]
  /\ currentWidget' = [currentWidget EXCEPT ![s] = IF @ = id THEN "null" ELSE @]
  /\ IF restored
     THEN sidebarUpdated(s, id, "remove", widgets'[s])
     ELSE UNCHANGED <<sideBarMenu, viewMenu, menuHandles, paletteItems>>
  /\ streak' = NoStreak
  /\ toggleLog' = <<>>
  /\ UNCHANGED <<collapsed, shellCurrent, activations, restored, menu, palette,
                 sideBarPalette, toggleCalls>>
  /\ UNCHANGED <<routerVars, topVars>>

\* The main area's current widget changes.
ShellCurrentChanged(w) ==
  /\ w # shellCurrent
  /\ shellCurrent' = w
  /\ UNCHANGED <<collapsed, currentWidget, widgets, activations, restored, menu,
                 palette, sideBarMenu, viewMenu, menuHandles, sideBarPalette,
                 paletteItems, toggleCalls, panelEvents, streak, toggleLog>>
  /\ UNCHANGED <<routerVars, topVars>>

\* commands.execute('application:toggle-panel', {side, id}).
TogglePanel(side, id) ==
  /\ toggleCalls < MaxToggles
  /\ toggleCalls' = toggleCalls + 1
  /\ togglePanelExecute([side |-> side, id |-> id])
  /\ streak' =
       IF side \notin Sides THEN NoStreak
       ELSE LET now == SideStateOf(collapsed'[side], currentWidget'[side])
            IN IF streak.side = side /\ streak.id = id
               THEN [streak EXCEPT !.after = Append(@, now)]
               ELSE [side |-> side, id |-> id, from |-> SideState(side),
                     after |-> <<now>>]
  /\ toggleLog' =
       LET e == [side |-> side, id |-> id,
                 from |-> IF side \in Sides THEN SideState(side) ELSE <<>>,
                 main |-> shellCurrent,
                 activated |-> activations' - activations]
       IN IF toggleLog # <<>> /\ toggleLog[1].side = side
          THEN Append(toggleLog, e)
          ELSE <<e>>
  /\ UNCHANGED <<widgets, shellCurrent, restored, menu, palette, sideBarMenu,
                 viewMenu, menuHandles, sideBarPalette, paletteItems, panelEvents>>
  /\ UNCHANGED <<routerVars, topVars>>

-----------------------------------------------------------------------------
(* Top bar visibility *)

Formats == {"desktop", "mobile"}

\* Values of settings.user.visible.
UserValues == {"undefined", "true", "false"}

\* settings.get('visible').composite: the user's value, else the default.
CompositeVisible == IF userVisible = "undefined" THEN TRUE ELSE userVisible = "true"

\* updateSettings(settings): a user-defined value sets the override and shows
\* or hides the top bar.
updateSettings ==
  IF userVisible # "undefined"
  THEN settingsOverride' = TRUE /\ topVisible' = CompositeVisible
  ELSE UNCHANGED <<settingsOverride, topVisible>>

\* onChanged without its test of settingsOverride.
onChangedIgnoresOverride(f) == topVisible' = (f = "desktop")

\* onChanged, app.format being f: nothing under the override, else expandTop on
\* desktop and collapseTop otherwise.
onChanged(f) ==
  IF settingsOverride
  THEN UNCHANGED topVisible
  ELSE topVisible' = (f = "desktop")

\* settingRegistry.load(pluginId) settles. A rejection rejects Promise.all and
\* reaches the catch, which logs the reason.
TopLoadSettled(ok) ==
  /\ loadSettings = "pending"
  /\ loadSettings' = IF ok THEN "resolved" ELSE "rejected"
  /\ logged' = IF ok THEN logged ELSE logged + 1
  /\ UNCHANGED <<settingRegistry, settingsConnected, userVisible, changedPending,
                 settingsOverride, topVisible, format, topEvents>>
  /\ UNCHANGED <<routerVars, sidebarVars>>

\* The callback of Promise.all([loadSettings, app.restored]): updateSettings,
\* and the connection to settings.changed.
TopSettingsReady ==
  /\ loadSettings = "resolved"
  /\ restored
  /\ ~settingsConnected
  /\ settingsConnected' = TRUE
  /\ changedPending' = FALSE
  /\ updateSettings
  /\ UNCHANGED <<settingRegistry, loadSettings, userVisible, format, logged,
                 topEvents>>
  /\ UNCHANGED <<routerVars, sidebarVars>>

\* settings.changed is emitted to the connected callback.
TopSettingsChanged ==
  /\ settingsConnected
  /\ changedPending
  /\ changedPending' = FALSE
  /\ updateSettings
  /\ UNCHANGED <<settingRegistry, loadSettings, settingsConnected, userVisible,
                 format, logged, topEvents>>
  /\ UNCHANGED <<routerVars, sidebarVars>>

\* The user's value of the setting is edited, or removed, in the registry.
UserEditsSetting(v) ==
  /\ settingRegistry
  /\ topEvents < MaxTopEvents
  /\ topEvents' = topEvents + 1
  /\ v # userVisible
  /\ userVisible' = v
  /\ changedPending' = TRUE
  /\ UNCHANGED <<settingRegistry, loadSettings, settingsConnected,
                 settingsOverride, topVisible, format, logged>>
  /\ UNCHANGED <<routerVars, sidebarVars>>

\* execute of application:toggle-top: the top bar is toggled and, with a
\* registry, its visibility is stored as the user's value.
ToggleTop ==
  /\ topEvents < MaxTopEvents
  /\ topEvents' = topEvents + 1
  /\ topVisible' = ~topVisible
  /\ IF settingRegistry
     THEN /\ userVisible' = IF topVisible' THEN "true" ELSE "false"
          /\ changedPending' = TRUE
     ELSE UNCHANGED <<userVisible, changedPending>>
  /\ UNCHANGED <<settingRegistry, loadSettings, settingsConnected,
                 settingsOverride, format, logged>>
  /\ UNCHANGED <<routerVars, sidebarVars>>

\* app.formatChanged is emitted, the format now being f.
FormatChanged(f) ==
  /\ topEvents < MaxTopEvents
  /\ topEvents' = topEvents + 1
  /\ f # format
  /\ format' = f
  /\ onChanged(f)
  /\ UNCHANGED <<settingRegistry, loadSettings, settingsConnected, userVisible,
                 changedPending, settingsOverride, logged>>
  /\ UNCHANGED <<routerVars, sidebarVars>>

-----------------------------------------------------------------------------
(* Specification *)

TopStart ==
  /\ loadSettings = IF settingRegistry THEN "pending" ELSE "none"
  /\ settingsConnected = FALSE
  /\ changedPending = FALSE
  /\ settingsOverride = FALSE
  /\ topVisible = TRUE
  /\ logged = 0
  /\ topEvents = 0

\* The top plugin on a desktop page, with a registry holding no user value.
TopFixed ==
  /\ settingRegistry = TRUE
  /\ userVisible = "undefined"
  /\ format = "desktop"
  /\ TopStart

SidebarStart ==
  /\ collapsed = [s \in Sides |-> TRUE]
  /\ currentWidget = [s \in Sides |-> "null"]
  /\ widgets = [s \in Sides |-> <<>>]
  /\ activations = 0
  /\ restored = FALSE
  /\ sideBarMenu = [s \in Sides |-> 0]
  /\ viewMenu = <<>>
  /\ menuHandles = 0
  /\ sideBarPalette = "null"
  /\ paletteItems = {}
  /\ toggleCalls = 0
  /\ panelEvents = 0
  /\ streak = NoStreak
  /\ toggleLog = <<>>

RouterStart ==
  /\ history = <<location>>
  /\ hidx = 1
  /\ started = FALSE
  /\ rules = InitialRules
  /\ commands = {routerTree, resolveTree, togglePanel}
  /\ routedConnected = TRUE
  /\ setDisposed = FALSE
  /\ delegate = Pending
  /\ inflight = <<>>
  /\ opener = <<>>
  /\ executions = <<>>
  /\ effects = <<>>
  /\ resolveCalls = 0
  /\ firstEvent = "none"
  /\ firstDone = "none"
  /\ updCalls = 0
  /\ updDiffered = <<>>
  /\ updArg = NoStr
  /\ routeCalls = 0

\* The state after the plugins are activated, for every explored URL and page
\* configuration.
Init ==
  /\ location \in [path : Paths, search : Searches]
  /\ pageConfig \in [baseUrl : BaseUrls, treePath : TreePaths]
  /\ RouterStart
  /\ SidebarStart
  /\ shellCurrent = "null"
  /\ menu = TRUE
  /\ palette = TRUE
  /\ TopFixed

\* The same state on the page /tree, for every combination of the optional
\* services and of the main area holding a document or not.
SidebarInit ==
  /\ location = [path |-> <<"/", "tree">>, search |-> NoStr]
  /\ pageConfig = [baseUrl |-> <<"/">>, treePath |-> NoStr]
  /\ RouterStart
  /\ SidebarStart
  /\ shellCurrent \in MainWidgets
  /\ menu \in BOOLEAN
  /\ palette \in BOOLEAN
  /\ TopFixed

Next ==
  \/ AppStarted
  \/ \E i \in 1..(MaxCalls + 1) : PopState(i)
  \/ \E i \in 1..(MaxCalls + 1) : ExecuteMatched(i)
  \/ \E i \in 1..(MaxCalls + 1) : EmitRouted(i)
  \/ \E i \in 1..(MaxCalls + 1), ok \in BOOLEAN : OpenerSettingsLoaded(i, ok)
  \/ \E p \in TreePaths : UpdateTreePath(p)

Spec == Init /\ [][Next]_vars

\* The state after activation for every explored URL, under one page
\* configuration.
LiveInit ==
  /\ location \in [path : Paths, search : Searches]
  /\ pageConfig = [baseUrl |-> <<"/">>, treePath |-> <<"notebooks", "/", "a", ".ipynb">>]
  /\ RouterStart
  /\ SidebarStart
  /\ shellCurrent = "null"
  /\ menu = TRUE
  /\ palette = TRUE
  /\ TopFixed

\* What a step ExecuteMatched does to inflight; no other step of Next does this
\* to it, and it is possible for every call whose command is not yet executed.
ExecuteRunsOn ==
  \E i \in 1..Len(inflight) :
    /\ inflight[i].phase = "matched"
    /\ inflight' = [inflight EXCEPT ![i].phase = "executed"]

\* A route() call that has started runs on: its command is executed and its
\* routed signal is emitted. Nothing is assumed of the host (app.started, pop
\* events, updateTreePath calls) nor of the settings registry.
Fairness ==
  /\ WF_inflight(ExecuteRunsOn)
  /\ WF_vars(\E i \in 1..(MaxCalls + 1) : EmitRouted(i))

LiveSpec == LiveInit /\ [][Next]_vars /\ Fairness

SidebarNext ==
  \/ AppRestored
  \/ \E s \in Sides, id \in WidgetIds, pos \in 1..(MaxPanelEvents + 1) :
       AddWidget(s, id, pos)
  \/ \E s \in Sides, id \in WidgetIds : RemoveWidget(s, id)
  \/ \E w \in MainWidgets : ShellCurrentChanged(w)
  \/ \E side \in SideArgs, id \in WidgetIds : TogglePanel(side, id)

SidebarSpec == SidebarInit /\ [][SidebarNext]_vars

\* The state after activation on the page /tree, with or without a settings
\* registry, for every user value of the setting and every format.
TopInit ==
  /\ location = [path |-> <<"/", "tree">>, search |-> NoStr]
  /\ pageConfig = [baseUrl |-> <<"/">>, treePath |-> NoStr]
  /\ RouterStart
  /\ SidebarStart
  /\ shellCurrent = "null"
  /\ menu = TRUE
  /\ palette = TRUE
  /\ settingRegistry \in BOOLEAN
  /\ userVisible \in (IF settingRegistry THEN UserValues ELSE {"undefined"})
  /\ format \in Formats
  /\ TopStart

TopNext ==
  \/ AppRestored
  \/ \E ok \in BOOLEAN : TopLoadSettled(ok)
  \/ TopSettingsReady
  \/ TopSettingsChanged
  \/ \E v \in UserValues : UserEditsSetting(v)
  \/ ToggleTop
  \/ \E f \in Formats : FormatChanged(f)

TopSpec == TopInit /\ [][TopNext]_vars

-----------------------------------------------------------------------------
(* Properties of the tree resolver *)

Fulfilled == delegate.state = "fulfilled"

\* A route() call whose matched command has been handed to commands.execute.
Executed(i) == i \in 1..Len(inflight) /\ inflight[i].phase = "executed"

C2_FulfilledIffDisposed ==
  /\ [](Fulfilled <=> setDisposed)
  /\ [][setDisposed => /\ setDisposed'
                       /\ delegate' = delegate
                       /\ resolveCalls' = resolveCalls]_vars

\* The routed notification of a second route() call is emitted after the set
\* was disposed by the catch-all of the first.
C2_Witness ==
  /\ setDisposed /\ Fulfilled /\ delegate.value = Null
  /\ routeCalls = 2
  /\ inflight = <<>>

\* C3: the command, its rule and the routed listener are registered together
\* and released together, and they are released exactly when the promise is
\* fulfilled.
C3_ReleasedTogether ==
  LET cmdGone == resolveTree \notin commands
      ruleGone == \A i \in 1..Len(rules) : rules[i].command # resolveTree
      listenerGone == ~routedConnected
  IN /\ cmdGone <=> ruleGone
     /\ ruleGone <=> listenerGone
     /\ listenerGone <=> Fulfilled

C3_Witness ==
  /\ Fulfilled
  /\ resolveTree \notin commands
  /\ rules = <<[pattern |-> "TREE_PATTERN", command |-> routerTree]>>
  /\ ~routedConnected

\* The step in which commands.execute runs resolve-tree as the first event.
ActionFiresFirst(i) ==
  /\ i \in 1..Len(inflight)
  /\ Len(inflight') = Len(inflight)
  /\ inflight[i].phase = "matched"
  /\ inflight'[i].phase = "executed"
  /\ firstEvent = "none"
  /\ firstEvent' = "action"

\* The pieces of a query string, each cut at its "=" signs.
QueryPieces(search) ==
  LET body == IF search # <<>> /\ Head(search) = "?" THEN Tail(search) ELSE search
      pieces == Split(body, "&")
  IN [i \in 1..Len(pieces) |-> Split(pieces[i], "=")]

HasMalformedEscape(search) ==
  \E i \in 1..Len(QueryPieces(search)) :
    LET kv == QueryPieces(search)[i]
    IN kv[1] # <<>> /\ Len(kv) >= 2 /\ Malformed(kv[2])

\* The value of file-browser-path in a query string: that of its last
\* occurrence, percent-decoded, and the empty string if it does not occur.
FileBrowserPathOf(search) ==
  LET kvs == QueryPieces(search)
      at == {i \in 1..Len(kvs) : kvs[i][1] = FileBrowserPathKey}
  IN IF at = {} THEN NoStr
     ELSE LET last == CHOOSE i \in at : \A j \in at : j <= i
              raw == IF Len(kvs[last]) >= 2 THEN kvs[last][2] ELSE <<>>
          IN [k \in 1..Len(raw) |->
                IF raw[k] = "%2F" THEN "/" ELSE IF raw[k] = "%20" THEN " " ELSE raw[k]]

Nonexistent == <<"/", "nonexistent">>

\* C5: a route() call for /nonexistent matches no registered pattern, so
\* resolve-tree is not run for it, and when /nonexistent is the only location
\* routed the promise is fulfilled with null.
C5_NonexistentResolvesNull ==
  /\ \A i \in 1..Len(inflight) :
       inflight[i].loc.path = Nonexistent => inflight[i].command = "none"
  /\ (history = <<location>> /\ location.path = Nonexistent /\ Fulfilled)
       => delegate.value = Null

\* C6: no routed path satisfies both the document-open pattern and the
\* tree-resolution pattern.
C6_PatternsExclusive ==
  \A i \in 1..Len(inflight) :
    ~(TREE_PATTERN(inflight[i].loc.path).matched /\ treePattern(inflight[i].loc.path))

-----------------------------------------------------------------------------
(* Properties of the tree path updater *)

CountOp(op) == Cardinality({k \in 1..Len(effects) : effects[k].op = op})

\* Number of updateTreePath calls whose argument differed from the recorded path.
updChanged == Cardinality({k \in 1..Len(updDiffered) : updDiffered[k]})

\* The step of one updateTreePath call.
UpdateStep == updCalls' = updCalls + 1

\* C7: navigations, treePath writes and calls with a differing argument are
\* equal in number; a call leaves its argument recorded; a call whose argument
\* is already recorded navigates and writes nothing, any other call navigates
\* once and writes once.
C7_UpdateIdempotent ==
  /\ [](CountOp("navigate") = updChanged /\ CountOp("setOption") = updChanged)
  /\ [][UpdateStep =>
          /\ pageConfig'.treePath = updArg'
          /\ IF updArg' = pageConfig.treePath
             THEN UNCHANGED <<effects, location, history, hidx, pageConfig>>
             ELSE /\ Len(effects') = Len(effects) + 2
                  /\ Len(history') = hidx + 1
                  /\ CountOp("navigate")' = CountOp("navigate") + 1
                  /\ CountOp("setOption")' = CountOp("setOption") + 1]_vars

\* Two successive calls with the same path, which was not the recorded one:
\* one navigation and one write in total.
C7_Witness ==
  /\ updDiffered = <<TRUE, FALSE>>
  /\ CountOp("navigate") = 1
  /\ CountOp("setOption") = 1
  /\ effects[2].arg = updArg
  /\ Len(history) = 2

\* The URL of a tree path under the base URL "/": /tree, then "/" and the path
\* with every space escaped.
ExpectedTreeUrl(p) ==
  IF p = <<>> THEN <<"/", "tree">>
  ELSE <<"/", "tree", "/">> \o [k \in 1..Len(p) |-> IF p[k] = " " THEN "%20" ELSE p[k]]

\* C8: every treePath write directly follows the navigation to that path's
\* URL, and a call that changes anything returns with the argument recorded and
\* the browser at the argument's URL.
C8_NavigateBeforeWrite ==
  /\ [](\A k \in 1..Len(effects) :
          effects[k].op = "setOption" =>
            /\ k > 1
            /\ effects[k - 1] = [op |-> "navigate",
                                 arg |-> ExpectedTreeUrl(effects[k].arg)])
  /\ [](\A k \in 1..Len(effects) :
          effects[k].op = "navigate" =>
            k < Len(effects) /\ effects[k + 1].op = "setOption")
  /\ [][(UpdateStep /\ updArg' # pageConfig.treePath) =>
          /\ pageConfig'.treePath = updArg'
          /\ location' = [path |-> ExpectedTreeUrl(updArg'), search |-> NoStr]
          /\ history'[hidx'] = location'
          /\ location'.path = ExpectedTreeUrl(pageConfig'.treePath)]_vars

\* update("my dir") has just returned: the URL is /tree/my%20dir.
C8_Witness ==
  /\ updCalls >= 1
  /\ updArg = <<"my", " ", "dir">>
  /\ pageConfig.treePath = updArg
  /\ location.path = <<"/", "tree", "/", "my", "%20", "dir">>
  /\ effects[Len(effects)] = [op |-> "setOption", arg |-> updArg]

\* C9: an updateTreePath call starts no route() call, runs no command, emits
\* no routed notification and leaves the tree resolver as it was; before the
\* first route() call the promise is pending whatever updates were made.
C9_UpdateDoesNotRoute ==
  /\ [](routeCalls = 0 => delegate = Pending /\ ~setDisposed /\ inflight = <<>>)
  /\ [][UpdateStep =>
          UNCHANGED <<inflight, routeCalls, resolverVars, firstEvent, firstDone,
                      opener, started>>]_vars

\* Updates were made before the first route(): the promise is still pending.
C9_Witness ==
  /\ ~started
  /\ updCalls >= 2
  /\ updChanged >= 1
  /\ routeCalls = 0
  /\ delegate = Pending

-----------------------------------------------------------------------------
(* Properties of the sidebar visibility plugin *)

\* C10: on a side whose only registered widget is W, successive executions of
\* toggle-panel with {side, W} that start from Collapsed leave the side
\* Expanded with W, then Collapsed, then Expanded with W, and so on; this for
\* the left and for the right side.
C10_ToggleCycle ==
  (/\ streak.side \in Sides
   /\ widgets[streak.side] = <<streak.id>>
   /\ streak.from = <<"Collapsed">>)
    => \A k \in 1..Len(streak.after) :
         streak.after[k] = IF k % 2 = 1
                           THEN <<"Expanded", streak.id>>
                           ELSE <<"Collapsed">>

\* Three toggles in a row on the right side, whose only widget is the toggled
\* one, while the left side shows another widget.
C10_Witness ==
  /\ streak.side = "right"
  /\ widgets["right"] = <<streak.id>>
  /\ streak.from = <<"Collapsed">>
  /\ Len(streak.after) = 3
  /\ SideState("right") = <<"Expanded", streak.id>>

\* The step of one toggle-panel execution.
ToggleStep == toggleCalls' = toggleCalls + 1

\* The activateById calls made by the toggle-panel executions of toggleLog.
RECURSIVE Reactivations(_)
Reactivations(log) ==
  IF log = <<>> THEN 0 ELSE log[Len(log)].activated + Reactivations(SubSeq(log, 1, Len(log) - 1))

\* C11: a toggle with an id registered on an expanded side that shows another
\* widget leaves the side expanded with that id and activates nothing in the
\* main area; the main-area widget is activated only by a toggle that collapses
\* a side showing the requested id, once, and only if there is one; and from
\* Collapsed with left widgets [A, B], toggle {left, A}, {left, B}, {left, B}
\* ends Collapsed with one activation if there is a main-area widget, none
\* otherwise.
C11_SwitchWithoutCollapse ==
  /\ [][ToggleStep =>
          LET e == toggleLog'[Len(toggleLog')]
              now == IF e.side \in Sides
                     THEN SideStateOf(collapsed'[e.side], currentWidget'[e.side])
                     ELSE <<>>
          IN /\ (/\ e.side \in Sides
                 /\ e.from[1] = "Expanded"
                 /\ e.from[2] # e.id
                 /\ e.id \in Range(widgets[e.side]))
                  => now = <<"Expanded", e.id>> /\ activations' = activations
             /\ activations' # activations
                  => /\ e.side \in Sides
                     /\ e.from = <<"Expanded", e.id>>
                     /\ now = <<"Collapsed">>
                     /\ shellCurrent # "null"
                     /\ activations' = activations + 1
             /\ (e.side \in Sides /\ e.from = <<"Expanded", e.id>>)
                  => /\ now = <<"Collapsed">>
                     /\ activations' = activations + (IF shellCurrent # "null" THEN 1 ELSE 0)]_vars
  /\ []((/\ Len(toggleLog) = 3
          /\ widgets["left"] = <<"A", "B">>
          /\ toggleLog[1].from = <<"Collapsed">>
          /\ [k \in 1..3 |-> <<toggleLog[k].side, toggleLog[k].id>>]
               = << <<"left", "A">>, <<"left", "B">>, <<"left", "B">> >>)
         => /\ SideState("left") = <<"Collapsed">>
            /\ Reactivations(toggleLog)
                 = (IF toggleLog[3].main # "null" THEN 1 ELSE 0))

\* Left holds [A, B]; toggle {left, A}, {left, B}, {left, B} from Collapsed,
\* with a document in the main area: collapsed again, one activation.
C11_Witness ==
  /\ Len(toggleLog) = 3
  /\ widgets["left"] = <<"A", "B">>
  /\ toggleLog[1].from = <<"Collapsed">>
  /\ [k \in 1..3 |-> <<toggleLog[k].side, toggleLog[k].id>>]
       = << <<"left", "A">>, <<"left", "B">>, <<"left", "B">> >>
  /\ toggleLog[2].from = <<"Expanded", "A">>
  /\ toggleLog[3].main = "doc"
  /\ SideState("left") = <<"Collapsed">>
  /\ activations = 1

\* C12: in every state isToggled({side, id}) is true exactly when side is left
\* or right, that side is not collapsed and its current widget exists and has
\* the requested id; so it is false for a collapsed side that remembers its
\* widget, false for any other side value, and it follows every change of the
\* shell.
C12_IsToggledLive ==
  \A side \in SideArgs, id \in WidgetIds :
    togglePanelIsToggled([side |-> side, id |-> id])
      <=> (/\ side \in Sides
           /\ ~collapsed[side]
           /\ currentWidget[side] # "null"
           /\ currentWidget[side] = id)

\* The left side was collapsed by a toggle of A and still remembers A, the
\* right side shows B: only {right, B} is toggled.
C12_Witness ==
  /\ collapsed["left"] /\ currentWidget["left"] = "A"
  /\ toggleLog # <<>> /\ toggleLog[Len(toggleLog)].side = "right"
  /\ ~collapsed["right"] /\ currentWidget["right"] = "B"
  /\ ~togglePanelIsToggled([side |-> "left", id |-> "A"])
  /\ togglePanelIsToggled([side |-> "right", id |-> "B"])
  /\ ~togglePanelIsToggled([side |-> "right", id |-> "A"])
  /\ ~togglePanelIsToggled([side |-> "top", id |-> "B"])

\* The entries of the View menu that are the submenu of side s.
SubmenusOf(s) == {k \in 1..Len(viewMenu) : viewMenu[k].label = getSidebarLabel(s)}

\* The step of one panel add or remove event, on side s.
PanelStep(s) == panelEvents' = panelEvents + 1 /\ widgets'[s] # widgets[s]

C14_AttachedIffPanels ==
  menu => \A s \in Sides : (SubmenusOf(s) # {}) <=> (Len(widgets[s]) > 0)

\* C14 (amended): the same once the application is restored; until then no
\* submenu is attached whatever panels are registered; after restore, removing
\* the last panel of a side leaves no submenu of that side, and adding a panel
\* to an empty side attaches exactly one.
C14_AttachedIffPanelsOnceRestored ==
  /\ []((menu /\ restored) =>
          \A s \in Sides : (SubmenusOf(s) # {}) <=> (Len(widgets[s]) > 0))
  /\ [](~restored => viewMenu = <<>>)
  /\ [](~menu => viewMenu = <<>>)
  /\ [][\A s \in Sides :
          (PanelStep(s) /\ restored /\ menu) =>
            /\ widgets'[s] = <<>> =>
                 \A k \in 1..Len(viewMenu') : viewMenu'[k].label # getSidebarLabel(s)
            /\ widgets[s] = <<>> =>
                 Cardinality({k \in 1..Len(viewMenu') :
                                viewMenu'[k].label = getSidebarLabel(s)}) = 1]_vars

\* After restore the last panel of the left side was removed and B was then
\* added to the empty side: one left submenu, the second one built.
C14_Witness ==
  /\ restored /\ menu
  /\ panelEvents = 3
  /\ widgets = [s \in Sides |-> IF s = "left" THEN <<"B">> ELSE <<>>]
  /\ menuHandles = 2
  /\ Len(viewMenu) = 1
  /\ viewMenu[1].label = getSidebarLabel("left")
  /\ viewMenu[1].handle = 2

\* The (widget id, side) pairs of the panels registered now.
RegisteredPanels ==
  UNION {{<<widgets[a][k], a>> : k \in 1..Len(widgets[a])} : a \in Sides}

\* C15: with a command palette, once the application is restored the palette
\* holds an entry for exactly the registered (widget id, side) pairs: an add
\* event leaves the entry of the added panel in it, a remove event leaves it
\* without the entry of the removed panel.
C15_PaletteMirrorsPanels ==
  (palette /\ restored) => paletteItems = RegisteredPanels

-----------------------------------------------------------------------------
(* Properties of the router plugin and of the document opener *)

\* The step in which app.started resolves and its callback runs.
StartStep == started' /\ ~started

\* The step of one history pop event.
PopStep == hidx' # hidx /\ history' = history

\* C16: no route() call is made before app.started resolves; the step in which
\* it resolves makes one route() call, for the current location and with every
\* rule registered at activation in place; a pop event makes one route() call
\* for the entry popped to if app.started has resolved, none otherwise; and
\* nothing else makes a route() call.
C16_RouteOnStartAndPop ==
  /\ [](~started => routeCalls = 0 /\ inflight = <<>>)
  /\ [][StartStep =>
          /\ routeCalls' = routeCalls + 1
          /\ rules = InitialRules
          /\ inflight' = Append(inflight,
                                [loc |-> location,
                                 command |-> RouterMatch(InitialRules, location.path),
                                 phase |-> "matched"])]_vars
  /\ [][PopStep =>
          IF started
          THEN /\ routeCalls' = routeCalls + 1
               /\ Len(inflight') = Len(inflight) + 1
               /\ inflight'[Len(inflight')].loc = location'
          ELSE routeCalls' = routeCalls /\ inflight' = inflight]_vars
  /\ [][routeCalls' # routeCalls =>
          /\ routeCalls' = routeCalls + 1
          /\ StartStep \/ (PopStep /\ started)]_vars

\* A pop event back to the first entry was delivered before app.started
\* resolved and routed nothing; the first route() call was made for that entry,
\* the second for the entry popped to afterwards.
C16_Witness ==
  /\ started
  /\ routeCalls = 2
  /\ Len(history) = 2 /\ hidx = 2
  /\ history[1] # history[2]
  /\ Len(inflight) = 2
  /\ inflight[1].loc = history[1]
  /\ inflight[2].loc = history[2]

\* Number of route() calls whose routed signal has been emitted.
routedEmitted == routeCalls - Len(inflight)

\* The step in which the command matched by route() call i is executed.
ExecuteStep(i) ==
  /\ i \in 1..Len(inflight)
  /\ Len(inflight') = Len(inflight)
  /\ inflight[i].phase = "matched"
  /\ inflight'[i].phase = "executed"

\* C17: every route() call made is followed by the emission of its routed
\* signal, whatever it matched and whether or not a document open it started
\* is still waiting; and a call that matched no rule changes nothing but that.
C17_RoutedAlwaysEmitted ==
  /\ \A n \in 1..MaxCalls : (routeCalls >= n) ~> (routedEmitted >= n)
  /\ [][\A i \in 1..(MaxCalls + 1) :
          (ExecuteStep(i) /\ inflight[i].command = "none") =>
            UNCHANGED <<resolverVars, firstEvent, firstDone, opener, location,
                        history, hidx, pageConfig, effects>>]_vars

\* The only route() call matched the document-open rule for a notebook; its
\* routed signal was emitted, and reached the tree resolver, while the open
\* still waits for the notebook settings.
C17_Witness ==
  /\ routeCalls = 1
  /\ inflight = <<>>
  /\ Len(opener) = 1 /\ opener[1].state = "loading"
  /\ firstEvent = "routed"
  /\ Fulfilled

\* C18: once app.started has resolved a route() call has been made, and once a
\* route() call has been made the promise is eventually fulfilled, whatever the
\* first URL; a fulfilled promise has had its route() call.
C18_TreeResolutionLive ==
  /\ started ~> (routeCalls >= 1)
  /\ (routeCalls >= 1) ~> Fulfilled
  /\ [](Fulfilled => routeCalls >= 1)
  /\ [](started => routeCalls >= 1)

\* The page was loaded on the document-open URL /edit/a.ipynb: the one route()
\* call has run to its end and the promise is fulfilled, with null.
C18_Witness ==
  /\ started
  /\ history = << [path |-> <<"/", "edit", "/", "a", ".ipynb">>, search |-> NoStr] >>
  /\ routeCalls = 1
  /\ inflight = <<>>
  /\ delegate = [state |-> "fulfilled", value |-> Null]

\* The step in which route() call i executes router:tree.
DocStep(i) == ExecuteStep(i) /\ inflight[i].command = routerTree

\* A path with its percent-escapes replaced by what they stand for.
Unescaped(p) ==
  [k \in 1..Len(p) |->
     IF p[k] = "%2F" THEN "/" ELSE IF p[k] = "%20" THEN " " ELSE p[k]]

\* The factory for a file: the notebook factory for the extension .ipynb, the
\* editor factory otherwise.
FactoryFor(f) ==
  IF Len(f) >= 2 /\ f[Len(f)] = ".ipynb" /\ f[Len(f) - 1] # "/"
  THEN NOTEBOOK_FACTORY
  ELSE EDITOR_FACTORY

\* C19 (as stated): an execution of router:tree for a routed path whose group
\* <p> is not empty starts one document open, for the decoded <p> and with the
\* factory of its extension, and that open is requested; for an empty <p> it
\* starts none.
C19_OpensDecodedPath ==
  /\ [][\A i \in 1..(MaxCalls + 1) :
          DocStep(i) =>
            LET p == TREE_PATTERN(inflight[i].loc.path).path
            IN IF p = <<>>
               THEN opener' = opener
               ELSE /\ Len(opener') = Len(opener) + 1
                    /\ SubSeq(opener', 1, Len(opener)) = opener
                    /\ opener'[Len(opener')].file = Unescaped(p)
                    /\ opener'[Len(opener')].factory = FactoryFor(Unescaped(p))]_vars
  /\ [](\A k \in 1..Len(opener) : opener[k].state # "failed")

\* C19 (amended): the same for a <p> without malformed percent-escape, the open
\* being requested at once with the editor factory and, with the notebook
\* factory, when the load of the notebook settings has resolved; if that load
\* rejects the open is never requested; for an empty or malformed <p> no open
\* is started; and nothing else starts, changes or repeats an open.
C19_OpensDecodedPathOnceLoaded ==
  /\ [][\A i \in 1..(MaxCalls + 1) :
          DocStep(i) =>
            LET p == TREE_PATTERN(inflight[i].loc.path).path
            IN IF p = <<>> \/ (\E k \in 1..Len(p) : p[k] = "%")
               THEN opener' = opener
               ELSE opener' = Append(opener,
                      [file |-> Unescaped(p),
                       factory |-> FactoryFor(Unescaped(p)),
                       state |-> IF FactoryFor(Unescaped(p)) = EDITOR_FACTORY
                                 THEN "opened" ELSE "loading"])]_vars
  /\ [][(\A i \in 1..(MaxCalls + 1) : ~DocStep(i)) =>
          /\ Len(opener') = Len(opener)
          /\ \A k \in 1..Len(opener) :
               \/ opener'[k] = opener[k]
               \/ /\ opener[k].state = "loading"
                  /\ opener'[k].state \in {"opened", "failed"}
                  /\ opener'[k].file = opener[k].file
                  /\ opener'[k].factory = opener[k].factory]_vars

\* The page was loaded on /edit/a.ipynb: one open of a.ipynb with the notebook
\* factory, requested after the notebook settings were loaded.
C19_Witness ==
  /\ history[1].path = <<"/", "edit", "/", "a", ".ipynb">>
  /\ routeCalls = 1
  /\ opener = << [file |-> <<"a", ".ipynb">>, factory |-> NOTEBOOK_FACTORY,
                  state |-> "opened"] >>

-----------------------------------------------------------------------------
(* Properties of the top bar visibility plugin *)

\* The step of one format change.
FormatStep == format' # format

\* C20: a rejected load of the settings is logged, once, and changes nothing
\* else; after it the override flag is never set and every format change
\* shows the top bar on desktop and hides it otherwise, as every format change
\* does while the flag is unset; the flag is set exactly when a user-defined
\* value of visible is read, it is never unset, and once it is set no format
\* change changes the top bar.
C20_OverrideAndFallback ==
  /\ [](loadSettings = "rejected" =>
          ~settingsOverride /\ ~settingsConnected /\ logged = 1)
  /\ [](logged > 0 => loadSettings = "rejected")
  /\ [][(loadSettings = "pending" /\ loadSettings' = "rejected") =>
          UNCHANGED <<settingsOverride, topVisible, format, settingsConnected>>]_vars
  /\ [][(FormatStep /\ ~settingsOverride) =>
          /\ topVisible' = (format' = "desktop")
          /\ ~settingsOverride']_vars
  /\ [][(FormatStep /\ settingsOverride) => topVisible' = topVisible]_vars
  /\ [][settingsOverride => settingsOverride']_vars
  /\ [][(~settingsOverride /\ settingsOverride') =>
          /\ loadSettings = "resolved" /\ restored
          /\ userVisible # "undefined"
          /\ topVisible' = (userVisible = "true")]_vars
  /\ [][((settingsConnected' /\ ~settingsConnected) \/ (changedPending /\ ~changedPending'))
          => (userVisible # "undefined" => settingsOverride')]_vars

\* The load of the settings was rejected, although the user's value says
\* hidden; the format then changed to mobile and back to desktop: the top bar
\* is shown again.
C20_Witness ==
  /\ loadSettings = "rejected"
  /\ logged = 1
  /\ userVisible = "false"
  /\ topEvents = 2
  /\ format = "desktop"
  /\ topVisible
  /\ ~settingsOverride

-----------------------------------------------------------------------------
(* Properties of the document-open action *)

\* Execution k of router:tree has nothing left to wait for: it started no
\* document open, or its open has been requested.
OpenRequested(k) ==
  /\ k \in 1..Len(executions)
  /\ \/ executions[k].open = 0
     \/ opener[executions[k].open].state = "opened"

\* C21: the promise returned by an execution of router:tree settles once the
\* execution has requested its document open, or has none to request.
C21_ExecuteSettles ==
  \A k \in 1..MaxCalls :
    OpenRequested(k) ~> (k \in 1..Len(executions) /\ executions[k].promise # "pending")

-----------------------------------------------------------------------------
(* Relations between the toggle-panel action, its state query and the sides *)

\* The toggle-panel execution of this step had the arguments {side, id}.
ToggledWith(side, id) ==
  /\ ToggleStep
  /\ toggleLog'[Len(toggleLog')].side = side
  /\ toggleLog'[Len(toggleLog')].id = id

\* C22: an execution of toggle-panel with {side, id}, id being registered on
\* that side, leaves isToggled({side, id}) the negation of what it was: true
\* from Collapsed and from Expanded with another widget, false from Expanded
\* with id.
C22_ToggleFlipsIsToggled ==
  [][\A side \in Sides, id \in WidgetIds :
       (ToggledWith(side, id) /\ id \in Range(widgets[side])) =>
         /\ togglePanelIsToggled([side |-> side, id |-> id])'
              = ~togglePanelIsToggled([side |-> side, id |-> id])
         /\ togglePanelIsToggled([side |-> side, id |-> id])
              <=> SideState(side) = <<"Expanded", id>>]_vars

\* The right side holds A and B. It was toggled with B from Collapsed, with A
\* from Expanded with B, and with A from Expanded with A: {right, A} is not
\* toggled, after having been toggled.
C22_Witness ==
  /\ Range(widgets["right"]) = {"A", "B"}
  /\ Len(toggleLog) = 3
  /\ [k \in 1..3 |-> <<toggleLog[k].side, toggleLog[k].id, toggleLog[k].from>>]
       = << <<"right", "B", <<"Collapsed">> >>,
            <<"right", "A", <<"Expanded", "B">> >>,
            <<"right", "A", <<"Expanded", "A">> >> >>
  /\ ~togglePanelIsToggled([side |-> "right", id |-> "A"])
  /\ SideState("right") = <<"Collapsed">>

OtherSide(s) == IF s = "left" THEN "right" ELSE "left"

\* The submenu records of side s attached to the View menu.
EntriesOf(s) == {viewMenu[k] : k \in SubmenusOf(s)}

\* The arguments' side of the toggle-panel execution of this step.
ToggledSide == toggleLog'[Len(toggleLog')].side

\* C23: a toggle-panel execution for one side leaves the other side's
\* collapsed flag and current widget unchanged; a panel add or remove event on
\* one side leaves the other side's menu entry and its attached submenu
\* unchanged; and an execution with a side that is neither left nor right
\* changes nothing of the shell, the menus or the palette.
C23_SideIndependence ==
  [][/\ \A s \in Sides :
          (ToggleStep /\ ToggledSide = s) =>
            /\ collapsed'[OtherSide(s)] = collapsed[OtherSide(s)]
            /\ currentWidget'[OtherSide(s)] = currentWidget[OtherSide(s)]
     /\ \A s \in Sides :
          PanelStep(s) =>
            /\ sideBarMenu'[OtherSide(s)] = sideBarMenu[OtherSide(s)]
            /\ EntriesOf(OtherSide(s))' = EntriesOf(OtherSide(s))
     /\ (ToggleStep /\ ToggledSide \notin Sides) =>
          UNCHANGED <<collapsed, currentWidget, widgets, shellCurrent,
                      activations, restored, menu, palette, sideBarMenu,
                      viewMenu, menuHandles, sideBarPalette, paletteItems>>]_vars

\* The left side's submenu was built at restore and the right side's after it,
\* when B was added; the left side was expanded with A, and the last execution
\* had the side "top": left is still expanded with A, right still collapsed,
\* and both submenus are attached.
C23_Witness ==
  /\ restored /\ menu
  /\ widgets = [s \in Sides |-> IF s = "left" THEN <<"A">> ELSE <<"B">>]
  /\ sideBarMenu = [s \in Sides |-> IF s = "left" THEN 1 ELSE 2]
  /\ Cardinality(EntriesOf("left")) = 1 /\ Cardinality(EntriesOf("right")) = 1
  /\ toggleCalls = 2
  /\ Len(toggleLog) = 1 /\ toggleLog[1].side = "top"
  /\ SideState("left") = <<"Expanded", "A">>
  /\ SideState("right") = <<"Collapsed">>

====
